---- MODULE Spec2Model ----
(***************************************************************************)
(* Model of Turing.py: the palindrome-deciding Turing machine              *)
(* (class TuringMachine) and the handlers that drive it: direct calls of   *)
(* initialize / step / run by a library or CLI caller, and the Tk handlers *)
(* of class TuringMachineGUI.                                              *)
(*                                                                         *)
(* Python strings are modelled as sequences of one-character strings, the  *)
(* tape dict as a function whose DOMAIN is the dict's key set.             *)
(* start_time and animation_running only feed the display and are left     *)
(* out; stdout output is not modelled.                                     *)
(***************************************************************************)
EXTENDS Integers, Sequences, FiniteSets, TLC

VARIABLES mode, tm, pc, last, gui

vars == <<mode, tm, pc, last, gui>>

\* ------------------------------------------------------------------ bounds
\* Longest string over {a, b} a caller passes to initialize / run.
MaxLen == 4

\* Longest string with a character outside {a, b} that a caller passes.
MaxBadLen == 1

\* Longest string typed into the GUI's entry (besides its initial text).
MaxEntryLen == 2

\* Characters a caller can type: the alphabet and one character outside it.
Chars == {"a", "b", "c"}

Strings(alphabet, n) == UNION {[1..k -> alphabet] : k \in 0..n}

\* The arguments callers pass: every string over {a, b} up to MaxLen and
\* every string over Chars up to MaxBadLen.
Inputs == Strings({"a", "b"}, MaxLen) \cup Strings(Chars, MaxBadLen)

\* ------------------------------------------------------- machine constants
blank_symbol == "B"

halt_state == "q_halt"

Rule(newState, write, move) ==
    [newState |-> newState, write |-> write, move |-> move]

transitions_q0 ==
    ("a" :> Rule("q1", blank_symbol, "R")) @@
    ("b" :> Rule("q2", blank_symbol, "R")) @@
    (blank_symbol :> Rule("q_yes", blank_symbol, "L"))

\* Saw 'a', scanning right
transitions_q1 ==
    ("a" :> Rule("q1", "a", "R")) @@
    ("b" :> Rule("q1", "b", "R")) @@
    (blank_symbol :> Rule("q3", blank_symbol, "L"))

\* Saw 'b', scanning right
transitions_q2 ==
    ("a" :> Rule("q2", "a", "R")) @@
    ("b" :> Rule("q2", "b", "R")) @@
    (blank_symbol :> Rule("q4", blank_symbol, "L"))

\* Mutation: a single remaining symbol is rejected instead of accepted.
transitions_q3_RejectMiddle ==
    ("a" :> Rule("q5", blank_symbol, "L")) @@
    ("b" :> Rule("q_no", "b", "L")) @@
    (blank_symbol :> Rule("q_no", blank_symbol, "L"))

\* Expect 'a' at the end
transitions_q3 ==
    ("a" :> Rule("q5", blank_symbol, "L")) @@
    ("b" :> Rule("q_no", "b", "L")) @@
    (blank_symbol :> Rule("q_yes", blank_symbol, "L"))

\* Mutation: a mismatching last symbol is erased as if it matched.
transitions_q4_AcceptMismatch ==
    ("b" :> Rule("q5", blank_symbol, "L")) @@
    ("a" :> Rule("q5", blank_symbol, "L")) @@
    (blank_symbol :> Rule("q_yes", blank_symbol, "L"))

\* Expect 'b' at the end
transitions_q4 ==
    ("b" :> Rule("q5", blank_symbol, "L")) @@
    ("a" :> Rule("q_no", "a", "L")) @@
    (blank_symbol :> Rule("q_yes", blank_symbol, "L"))

\* Mutation: the return sweep stops on the blank instead of stepping right.
transitions_q5_StayOnBlank ==
    ("a" :> Rule("q5", "a", "L")) @@
    ("b" :> Rule("q5", "b", "L")) @@
    (blank_symbol :> Rule("q0", blank_symbol, "S"))

\* Return left
transitions_q5 ==
    ("a" :> Rule("q5", "a", "L")) @@
    ("b" :> Rule("q5", "b", "L")) @@
    (blank_symbol :> Rule("q0", blank_symbol, "R"))

\* Mutation: the accept sweep keeps moving left at its end.
transitions_q_yes_TurnLeft ==
    ("a" :> Rule("q_yes", blank_symbol, "L")) @@
    ("b" :> Rule("q_yes", blank_symbol, "L")) @@
    (blank_symbol :> Rule("qy1", blank_symbol, "L"))

\* Start Accept Sequence
transitions_q_yes ==
    ("a" :> Rule("q_yes", blank_symbol, "L")) @@
    ("b" :> Rule("q_yes", blank_symbol, "L")) @@
    (blank_symbol :> Rule("qy1", blank_symbol, "R"))

\* Mutation: the reject sweep ends in the accept sequence's first state.
transitions_q_no_ToAccept ==
    ("a" :> Rule("q_no", blank_symbol, "L")) @@
    ("b" :> Rule("q_no", blank_symbol, "L")) @@
    (blank_symbol :> Rule("qy1", blank_symbol, "R"))

\* Start Reject Sequence
transitions_q_no ==
    ("a" :> Rule("q_no", blank_symbol, "L")) @@
    ("b" :> Rule("q_no", blank_symbol, "L")) @@
    (blank_symbol :> Rule("qn1", blank_symbol, "R"))

transitions ==
    ("q0" :> transitions_q0) @@
    ("q1" :> transitions_q1) @@
    ("q2" :> transitions_q2) @@
    ("q3" :> transitions_q3) @@
    ("q4" :> transitions_q4) @@
    ("q5" :> transitions_q5) @@
    ("q_yes" :> transitions_q_yes) @@
    ("qy1" :> (blank_symbol :> Rule("qy2", "Y", "R"))) @@
    ("qy2" :> (blank_symbol :> Rule("qy3", "E", "R"))) @@
    ("qy3" :> (blank_symbol :> Rule(halt_state, "S", "S"))) @@
    ("q_no" :> transitions_q_no) @@
    ("qn1" :> (blank_symbol :> Rule("qn2", "N", "R"))) @@
    ("qn2" :> (blank_symbol :> Rule(halt_state, "O", "S")))

\* The machine as __init__ leaves it.
NewMachine ==
    [tape |-> <<>>,
     head_position |-> 0,
     current_state |-> "q0",
     step_count |-> 0,
     execution_log |-> <<>>,
     original_input |-> <<>>,
     error_message |-> <<>>]

\* ------------------------------------------------------------ tape access
\* self.tape.get(position, self.blank_symbol)
tape_get(tape, position) ==
    IF position \in DOMAIN tape THEN tape[position] ELSE blank_symbol

\* self.tape[position] = symbol
tape_set(tape, position, symbol) ==
    [p \in (DOMAIN tape) \cup {position} |->
        IF p = position THEN symbol ELSE tape[p]]

MinKey(S) == CHOOSE k \in S : \A j \in S : k <= j

\* Mutation: blank cells are not filtered out.
RECURSIVE JoinSorted_KeepBlank(_, _)
JoinSorted_KeepBlank(tape, keys) ==
    IF keys = {} THEN <<>>
    ELSE LET key == MinKey(keys)
         IN <<tape[key]>> \o JoinSorted_KeepBlank(tape, keys \ {key})

RECURSIVE JoinSorted(_, _)
JoinSorted(tape, keys) ==
    IF keys = {} THEN <<>>
    ELSE LET key == MinKey(keys)
         IN (IF tape[key] # blank_symbol THEN <<tape[key]>> ELSE <<>>)
            \o JoinSorted(tape, keys \ {key})

get_tape_content(m) ==
    IF DOMAIN m.tape = {} THEN <<>>
    ELSE JoinSorted(m.tape, DOMAIN m.tape)

\* ------------------------------------------------------------- initialize
ValidInput(input_string) ==
    \A i \in 1..Len(input_string) : input_string[i] \in {"a", "b"}

\* Mutation: the input is recorded before it is validated.
initialize_RecordFirst(m, input_string) ==
    IF ~ValidInput(input_string)
    THEN [tm |-> [m EXCEPT !.original_input = input_string], ok |-> FALSE]
    ELSE [tm |-> [tape |-> [i \in 0..(Len(input_string) - 1) |->
                                input_string[i + 1]],
                  head_position |-> 0,
                  current_state |-> "q0",
                  step_count |-> 0,
                  execution_log |-> <<>>,
                  original_input |-> input_string,
                  error_message |-> <<>>],
          ok |-> TRUE]

\* Mutation: the new input is written over the old tape dict instead of
\* replacing it, and the execution log is kept.
initialize_KeepOld(m, input_string) ==
    IF ~ValidInput(input_string)
    THEN [tm |-> m, ok |-> FALSE]
    ELSE [tm |-> [tape |-> [i \in (DOMAIN m.tape) \cup
                                  (0..(Len(input_string) - 1)) |->
                                IF i \in 0..(Len(input_string) - 1)
                                THEN input_string[i + 1] ELSE m.tape[i]],
                  head_position |-> 0,
                  current_state |-> "q0",
                  step_count |-> 0,
                  execution_log |-> m.execution_log,
                  original_input |-> input_string,
                  error_message |-> <<>>],
          ok |-> TRUE]

initialize(m, input_string) ==
    IF ~ValidInput(input_string)
    THEN [tm |-> m, ok |-> FALSE]
    ELSE [tm |-> [tape |-> [i \in 0..(Len(input_string) - 1) |->
                                input_string[i + 1]],
                  head_position |-> 0,
                  current_state |-> "q0",
                  step_count |-> 0,
                  execution_log |-> <<>>,
                  original_input |-> input_string,
                  error_message |-> <<>>],
          ok |-> TRUE]

\* ------------------------------------------------------------------- step
\* f"No transition for state '{state}' and symbol '{symbol}'"
FormatError(state, symbol) ==
    <<"No transition for state '", state, "' and symbol '", symbol, "'">>

\* Mutation: the early return for a halted machine is missing.
step_NoHaltCheck(m) ==
      LET read_symbol == tape_get(m.tape, m.head_position) IN
      IF \/ m.current_state \notin DOMAIN transitions
         \/ read_symbol \notin DOMAIN transitions[m.current_state]
      THEN [tm |-> [m EXCEPT
                      !.error_message =
                          FormatError(m.current_state, read_symbol),
                      !.current_state = halt_state],
            status |-> "ERROR"]
      ELSE
        LET rule == transitions[m.current_state][read_symbol]
            step_info == [step |-> m.step_count,
                          state |-> m.current_state,
                          position |-> m.head_position,
                          read |-> read_symbol,
                          write |-> rule.write,
                          move |-> rule.move,
                          new_state |-> rule.newState]
        IN [tm |-> [m EXCEPT
                      !.execution_log = Append(@, step_info),
                      !.tape = tape_set(@, m.head_position, rule.write),
                      !.head_position =
                          IF rule.move = "R" THEN @ + 1
                          ELSE IF rule.move = "L" THEN @ - 1
                          ELSE @,
                      !.current_state = rule.newState,
                      !.step_count = @ + 1],
            status |-> IF rule.newState # halt_state
                       THEN "CONTINUE" ELSE "HALT"]

\* Mutation: a missing rule is reported but the machine is not halted.
step_ErrorKeepsState(m) ==
    IF m.current_state = halt_state
    THEN [tm |-> m, status |-> "HALT"]
    ELSE
      LET read_symbol == tape_get(m.tape, m.head_position) IN
      IF \/ m.current_state \notin DOMAIN transitions
         \/ read_symbol \notin DOMAIN transitions[m.current_state]
      THEN [tm |-> [m EXCEPT
                      !.error_message =
                          FormatError(m.current_state, read_symbol)],
            status |-> "ERROR"]
      ELSE
        LET rule == transitions[m.current_state][read_symbol]
            step_info == [step |-> m.step_count,
                          state |-> m.current_state,
                          position |-> m.head_position,
                          read |-> read_symbol,
                          write |-> rule.write,
                          move |-> rule.move,
                          new_state |-> rule.newState]
        IN [tm |-> [m EXCEPT
                      !.execution_log = Append(@, step_info),
                      !.tape = tape_set(@, m.head_position, rule.write),
                      !.head_position =
                          IF rule.move = "R" THEN @ + 1
                          ELSE IF rule.move = "L" THEN @ - 1
                          ELSE @,
                      !.current_state = rule.newState,
                      !.step_count = @ + 1],
            status |-> IF rule.newState # halt_state
                       THEN "CONTINUE" ELSE "HALT"]

\* Mutation: the step that enters the halt state is not counted.
step_NoCountOnHalt(m) ==
    IF m.current_state = halt_state
    THEN [tm |-> m, status |-> "HALT"]
    ELSE
      LET read_symbol == tape_get(m.tape, m.head_position) IN
      IF \/ m.current_state \notin DOMAIN transitions
         \/ read_symbol \notin DOMAIN transitions[m.current_state]
      THEN [tm |-> [m EXCEPT
                      !.error_message =
                          FormatError(m.current_state, read_symbol),
                      !.current_state = halt_state],
            status |-> "ERROR"]
      ELSE
        LET rule == transitions[m.current_state][read_symbol]
            step_info == [step |-> m.step_count,
                          state |-> m.current_state,
                          position |-> m.head_position,
                          read |-> read_symbol,
                          write |-> rule.write,
                          move |-> rule.move,
                          new_state |-> rule.newState]
        IN [tm |-> [m EXCEPT
                      !.execution_log = Append(@, step_info),
                      !.tape = tape_set(@, m.head_position, rule.write),
                      !.head_position =
                          IF rule.move = "R" THEN @ + 1
                          ELSE IF rule.move = "L" THEN @ - 1
                          ELSE @,
                      !.current_state = rule.newState,
                      !.step_count = IF rule.newState # halt_state
                                     THEN @ + 1 ELSE @],
            status |-> IF rule.newState # halt_state
                       THEN "CONTINUE" ELSE "HALT"]

\* Mutation: the head moves before the symbol is written.
step_WriteAfterMove(m) ==
    IF m.current_state = halt_state
    THEN [tm |-> m, status |-> "HALT"]
    ELSE
      LET read_symbol == tape_get(m.tape, m.head_position) IN
      IF \/ m.current_state \notin DOMAIN transitions
         \/ read_symbol \notin DOMAIN transitions[m.current_state]
      THEN [tm |-> [m EXCEPT
                      !.error_message =
                          FormatError(m.current_state, read_symbol),
                      !.current_state = halt_state],
            status |-> "ERROR"]
      ELSE
        LET rule == transitions[m.current_state][read_symbol]
            step_info == [step |-> m.step_count,
                          state |-> m.current_state,
                          position |-> m.head_position,
                          read |-> read_symbol,
                          write |-> rule.write,
                          move |-> rule.move,
                          new_state |-> rule.newState]
        IN [tm |-> [m EXCEPT
                      !.execution_log = Append(@, step_info),
                      !.tape = tape_set(@,
                                        IF rule.move = "R"
                                        THEN m.head_position + 1
                                        ELSE IF rule.move = "L"
                                        THEN m.head_position - 1
                                        ELSE m.head_position,
                                        rule.write),
                      !.head_position =
                          IF rule.move = "R" THEN @ + 1
                          ELSE IF rule.move = "L" THEN @ - 1
                          ELSE @,
                      !.current_state = rule.newState,
                      !.step_count = @ + 1],
            status |-> IF rule.newState # halt_state
                       THEN "CONTINUE" ELSE "HALT"]

\* Mutation: the log record's state is taken after the transition.
step_LogNewState(m) ==
    IF m.current_state = halt_state
    THEN [tm |-> m, status |-> "HALT"]
    ELSE
      LET read_symbol == tape_get(m.tape, m.head_position) IN
      IF \/ m.current_state \notin DOMAIN transitions
         \/ read_symbol \notin DOMAIN transitions[m.current_state]
      THEN [tm |-> [m EXCEPT
                      !.error_message =
                          FormatError(m.current_state, read_symbol),
                      !.current_state = halt_state],
            status |-> "ERROR"]
      ELSE
        LET rule == transitions[m.current_state][read_symbol]
            step_info == [step |-> m.step_count,
                          state |-> rule.newState,
                          position |-> m.head_position,
                          read |-> read_symbol,
                          write |-> rule.write,
                          move |-> rule.move,
                          new_state |-> rule.newState]
        IN [tm |-> [m EXCEPT
                      !.execution_log = Append(@, step_info),
                      !.tape = tape_set(@, m.head_position, rule.write),
                      !.head_position =
                          IF rule.move = "R" THEN @ + 1
                          ELSE IF rule.move = "L" THEN @ - 1
                          ELSE @,
                      !.current_state = rule.newState,
                      !.step_count = @ + 1],
            status |-> IF rule.newState # halt_state
                       THEN "CONTINUE" ELSE "HALT"]

step(m) ==
    IF m.current_state = halt_state
    THEN [tm |-> m, status |-> "HALT"]
    ELSE
      LET read_symbol == tape_get(m.tape, m.head_position) IN
      IF \/ m.current_state \notin DOMAIN transitions
         \/ read_symbol \notin DOMAIN transitions[m.current_state]
      THEN [tm |-> [m EXCEPT
                      !.error_message =
                          FormatError(m.current_state, read_symbol),
                      !.current_state = halt_state],
            status |-> "ERROR"]
      ELSE
        LET rule == transitions[m.current_state][read_symbol]
            step_info == [step |-> m.step_count,
                          state |-> m.current_state,
                          position |-> m.head_position,
                          read |-> read_symbol,
                          write |-> rule.write,
                          move |-> rule.move,
                          new_state |-> rule.newState]
        IN [tm |-> [m EXCEPT
                      !.execution_log = Append(@, step_info),
                      !.tape = tape_set(@, m.head_position, rule.write),
                      !.head_position =
                          IF rule.move = "R" THEN @ + 1
                          ELSE IF rule.move = "L" THEN @ - 1
                          ELSE @,
                      !.current_state = rule.newState,
                      !.step_count = @ + 1],
            status |-> IF rule.newState # halt_state
                       THEN "CONTINUE" ELSE "HALT"]

\* -------------------------------------------------------------------- run
\* f"{Fore.RED}Error: Input string contains invalid characters."
\* (Fore.RED is the escape sequence ESC [ 3 1 m)
InvalidInputText ==
    <<"ESC", "[", "3", "1", "m",
      "E", "r", "r", "o", "r", ":", " ",
      "I", "n", "p", "u", "t", " ",
      "s", "t", "r", "i", "n", "g", " ",
      "c", "o", "n", "t", "a", "i", "n", "s", " ",
      "i", "n", "v", "a", "l", "i", "d", " ",
      "c", "h", "a", "r", "a", "c", "t", "e", "r", "s", ".">>

\* -------------------------------------------------------------------- GUI
\* Strings the user types into the entry.
EntryTexts == Strings(Chars, MaxEntryLen)

\* master.after returns an identifier Tk never hands out again.  Only
\* equality with simulation_id and membership in the pending set matter, so
\* the model takes the least identifier that is neither pending nor held in
\* simulation_id (0 stands for None).
FreshId(g) ==
    CHOOSE id \in 1..(Cardinality(g.timers) + 2) :
        /\ id \notin g.timers
        /\ id # g.simulation_id
        /\ \A j \in 1..(id - 1) : j \in g.timers \/ j = g.simulation_id

\* Mutation: the pending callback is not cancelled.
reset_simulation_NoCancel(m, g) ==
    LET r == initialize(m, g.entry_text) IN
    [tm |-> r.tm,
     ok |-> r.ok,
     gui |-> [g EXCEPT
                !.simulation_id = 0,
                !.status_label = "q0",
                !.step_label = 0,
                !.run_button = "normal",
                !.entry_state = "normal"]]

reset_simulation(m, g) ==
    LET r == initialize(m, g.entry_text) IN
    [tm |-> r.tm,
     ok |-> r.ok,
     gui |-> [g EXCEPT
                !.timers = IF g.simulation_id # 0
                           THEN @ \ {g.simulation_id} ELSE @,
                !.simulation_id = 0,
                !.status_label = "q0",
                !.step_label = 0,
                !.run_button = "normal",
                !.entry_state = "normal"]]

run_step(m, g) ==
    LET shown == [g EXCEPT !.status_label = m.current_state,
                           !.step_label = m.step_count]
        r == step(m)
    IN [tm |-> r.tm,
        status |-> r.status,
        gui |-> IF r.status = "CONTINUE"
                THEN LET id == FreshId(shown) IN
                     [shown EXCEPT !.simulation_id = id,
                                   !.timers = @ \cup {id}]
                ELSE [shown EXCEPT
                        !.run_button = "normal",
                        !.entry_state = "normal",
                        !.dialog = IF r.status = "ERROR"
                                   THEN "Simulation Error" ELSE @]]

start_simulation(m, g) ==
    LET input_string == g.entry_text
        first == initialize(m, input_string)
    IN IF ~first.ok
       THEN [tm |-> first.tm, ok |-> FALSE, status |-> "NONE",
             gui |-> [g EXCEPT !.dialog = "Invalid Input"]]
       ELSE LET reset == reset_simulation(first.tm, g)
                second == initialize(reset.tm, input_string)
                disabled == [reset.gui EXCEPT !.run_button = "disabled",
                                              !.entry_state = "disabled"]
                r == run_step(second.tm, disabled)
            IN [tm |-> r.tm, ok |-> TRUE, status |-> r.status,
                gui |-> r.gui]

\* What the caller observed of the last call: the operation, its argument,
\* the machine state it found, and what it returned (ok: initialize's
\* result, status: step's result, out: run's result once run has returned).
Call(op, arg, before, ok, status, out) ==
    [op |-> op, arg |-> arg, before |-> before,
     ok |-> ok, status |-> status, out |-> out]

NewGui ==
    [entry_text |-> <<"a", "b", "a", "b", "a">>,
     entry_state |-> "normal",
     run_button |-> "normal",
     simulation_id |-> 0,
     timers |-> {},
     status_label |-> "q0",
     step_label |-> 0,
     dialog |-> "none"]

Init ==
    /\ mode \in {"lib", "gui"}
    /\ tm = NewMachine
    /\ pc = "idle"
    /\ last = Call("new", <<>>, "q0", TRUE, "NONE", <<>>)
    /\ gui = NewGui

\* A caller invokes tm.initialize(s).
Initialize(s) ==
    /\ mode = "lib"
    /\ pc = "idle"
    /\ LET r == initialize(tm, s) IN
         /\ tm' = r.tm
         /\ last' = Call("initialize", s, tm.current_state, r.ok, "NONE", <<>>)
    /\ UNCHANGED <<mode, pc, gui>>

\* A caller invokes tm.step().
Step ==
    /\ mode = "lib"
    /\ pc = "idle"
    /\ LET r == step(tm) IN
         /\ tm' = r.tm
         /\ last' = Call("step", <<>>, tm.current_state, TRUE, r.status, <<>>)
    /\ UNCHANGED <<mode, pc, gui>>

\* A caller invokes tm.run(s): the part of run before its while loop.
Run(s) ==
    /\ mode = "lib"
    /\ pc = "idle"
    /\ LET r == initialize(tm, s) IN
         /\ tm' = r.tm
         /\ IF ~r.ok
            THEN /\ pc' = "idle"
                 /\ last' = Call("run", s, tm.current_state, FALSE, "NONE",
                                 InvalidInputText)
            ELSE /\ pc' = "run"
                 /\ last' = Call("run", s, tm.current_state, TRUE, "NONE",
                                 <<>>)
    /\ UNCHANGED <<mode, gui>>

\* Mutation: the loop breaks on ERROR only.
RunLoop_BreakOnErrorOnly ==
    /\ mode = "lib"
    /\ pc = "run"
    /\ LET r == step(tm) IN
         /\ tm' = r.tm
         /\ IF r.status = "ERROR"
            THEN /\ pc' = "idle"
                 /\ last' = [last EXCEPT !.status = r.status,
                                         !.out = get_tape_content(r.tm)]
            ELSE /\ pc' = "run"
                 /\ last' = [last EXCEPT !.status = r.status]
    /\ UNCHANGED <<mode, gui>>

\* One iteration of run's while loop; on a non-CONTINUE status the loop
\* breaks and run returns the tape content.
RunLoop ==
    /\ mode = "lib"
    /\ pc = "run"
    /\ LET r == step(tm) IN
         /\ tm' = r.tm
         /\ IF r.status # "CONTINUE"
            THEN /\ pc' = "idle"
                 /\ last' = [last EXCEPT !.status = r.status,
                                         !.out = get_tape_content(r.tm)]
            ELSE /\ pc' = "run"
                 /\ last' = [last EXCEPT !.status = r.status]
    /\ UNCHANGED <<mode, gui>>

\* The user presses Run (possible only while the button is enabled).
StartSimulation ==
    /\ mode = "gui"
    /\ gui.run_button = "normal"
    /\ LET r == start_simulation(tm, [gui EXCEPT !.dialog = "none"]) IN
         /\ tm' = r.tm
         /\ gui' = r.gui
         /\ last' = Call("start_simulation", gui.entry_text,
                         tm.current_state, r.ok, r.status, <<>>)
    /\ UNCHANGED <<mode, pc>>

\* A pending master.after callback fires.
TimerFires(id) ==
    /\ mode = "gui"
    /\ id \in gui.timers
    /\ LET r == run_step(tm, [gui EXCEPT !.timers = @ \ {id},
                                         !.dialog = "none"]) IN
         /\ tm' = r.tm
         /\ gui' = r.gui
         /\ last' = Call("run_step", <<>>, tm.current_state, TRUE,
                         r.status, <<>>)
    /\ UNCHANGED <<mode, pc>>

\* The user presses Reset (the button is never disabled).
ResetSimulation ==
    /\ mode = "gui"
    /\ LET r == reset_simulation(tm, [gui EXCEPT !.dialog = "none"]) IN
         /\ tm' = r.tm
         /\ gui' = r.gui
         /\ last' = Call("reset_simulation", gui.entry_text,
                         tm.current_state, r.ok, "NONE", <<>>)
    /\ UNCHANGED <<mode, pc>>

\* The user replaces the entry's text (possible only while it is enabled).
EditEntry(s) ==
    /\ mode = "gui"
    /\ gui.entry_state = "normal"
    /\ gui' = [gui EXCEPT !.entry_text = s, !.dialog = "none"]
    /\ last' = Call("edit", s, tm.current_state, TRUE, "NONE", <<>>)
    /\ UNCHANGED <<mode, tm, pc>>

Next ==
    \/ \E s \in Inputs : Initialize(s)
    \/ Step
    \/ \E s \in Inputs : Run(s)
    \/ RunLoop
    \/ StartSimulation
    \/ \E id \in gui.timers : TimerFires(id)
    \/ ResetSimulation
    \/ \E s \in EntryTexts : EditEntry(s)

Spec == Init /\ [][Next]_vars

\* run's loop keeps iterating while it has not returned.
FairSpec == Spec /\ WF_vars(RunLoop)

\* ------------------------------------------------- __main__: the check mark
\* Python's `sub in text` for strings.
Contains(text, sub) ==
    \E i \in 0..(Len(text) - Len(sub)) :
        \A j \in 1..Len(sub) : text[i + j] = sub[j]

\* status = "✓" if "YES" in result else "✗"
BatchMark(result) ==
    IF Contains(result, <<"Y", "E", "S">>) THEN "check" ELSE "cross"

\* ================================================================== claims
IsPalindrome(s) == \A i \in 1..Len(s) : s[i] = s[Len(s) + 1 - i]

EndsWith(text, suffix) ==
    /\ Len(text) >= Len(suffix)
    /\ \A j \in 1..Len(suffix) :
           text[Len(text) - Len(suffix) + j] = suffix[j]

Verdict(text) ==
    IF EndsWith(text, <<"Y", "E", "S">>) THEN "Yes"
    ELSE IF EndsWith(text, <<"N", "O">>) THEN "No"
    ELSE "Malformed"

\* run(last.arg) got past initialize and its loop has ended.
RunReturned == last.op = "run" /\ last.ok /\ pc = "idle"

\* C1: when a run on a string over {a,b} has ended, the verdict decoded from
\* the final tape string is Yes if the string is a palindrome and No if it
\* is not.
C1_VerdictDecidesPalindrome ==
    RunReturned =>
        Verdict(last.out) = IF IsPalindrome(last.arg) THEN "Yes" ELSE "No"

\* C2: on a palindrome the machine never reports ERROR, a halted machine's
\* decoded tape content is exactly "YES", and run ends with HALT and
\* returns "YES".
C2_PalindromeHaltsWithYES ==
    IsPalindrome(tm.original_input) =>
        /\ last.status # "ERROR"
        /\ tm.error_message = <<>>
        /\ tm.current_state = halt_state =>
               get_tape_content(tm) = <<"Y", "E", "S">>
        /\ RunReturned =>
               last.status = "HALT" /\ last.out = <<"Y", "E", "S">>

C2_Witness ==
    /\ RunReturned
    /\ last.arg = <<"a", "b", "b", "a">>
    /\ last.status = "HALT"
    /\ last.out = <<"Y", "E", "S">>

\* C3: when a run on a validated input has ended, no input symbol is left
\* on the tape: the decoded string is exactly "YES" or exactly "NO".
C3_FinalStringIsYESorNO ==
    RunReturned => last.out \in {<<"Y", "E", "S">>, <<"N", "O">>}

\* C4: no step() call returns ERROR: every (state, symbol) pair the machine
\* reaches has a rule in the transition table.
C4_NoTransitionGap ==
    last.status # "ERROR" /\ tm.error_message = <<>>

\* C5: the string run(s) returns for s over {a,b} contains "YES" (the test
\* behind the check mark) if and only if s is a palindrome.
C5_CheckMarkIffPalindrome ==
    RunReturned =>
        (BatchMark(last.out) = "check" <=> IsPalindrome(last.arg))

C5_Witness ==
    /\ RunReturned
    /\ last.arg = <<"a", "b", "a", "b">>
    /\ ~IsPalindrome(last.arg)
    /\ BatchMark(last.out) = "cross"

\* C6: initialize, run and start_simulation on an input with a character
\* outside {a,b} report failure, leave every field of the machine as it
\* was, and execute no step (run does not enter its loop, no timer is
\* scheduled).
C6_InvalidInputChangesNothing ==
    [][(/\ last'.op \in {"initialize", "run", "start_simulation"}
        /\ ~ValidInput(last'.arg))
       => /\ ~last'.ok
          /\ tm' = tm
          /\ last'.status = "NONE"
          /\ pc' = "idle"
          /\ gui'.timers = gui.timers]_vars

C6_Witness ==
    /\ last.op \in {"initialize", "run", "start_simulation"}
    /\ ~ValidInput(last.arg)
    /\ ~last.ok
    /\ last.before \in {"q1", "q5", "q_no"}
    /\ tm.step_count > 0
    /\ tm.execution_log # <<>>

\* C7: a step() call on a machine in the halt state returns HALT and leaves
\* every field of the machine as it was.
C7_StepAfterHaltIsNoOp ==
    [][(/\ tm.current_state = halt_state
        /\ last'.op \in {"step", "run_step"})
       => /\ last'.status = "HALT"
          /\ tm' = tm]_vars

C7_Witness ==
    /\ last.op = "step"
    /\ last.before = halt_state
    /\ last.status = "HALT"
    /\ tm.step_count > 0

\* C8: run's loop always ends: a run that has entered its loop eventually
\* gets a non-CONTINUE status, with the machine in the halt state.
C8_RunTerminates ==
    (pc = "run") ~> (/\ pc = "idle"
                     /\ last.status \in {"HALT", "ERROR"}
                     /\ tm.current_state = halt_state)

C8_Witness ==
    /\ RunReturned
    /\ Len(last.arg) = 4
    /\ last.status = "HALT"
    /\ tm.current_state = halt_state

\* C9: a step() call that finds no rule returns ERROR, sets the state to
\* the halt state, leaves tape, head position and step count as they were,
\* records a message naming the state and symbol, and the next step()
\* returns HALT.
C9_GapHaltsAndReports ==
    [][(/\ last'.op \in {"step", "run", "run_step"}
        /\ last'.status = "ERROR")
       => /\ tm'.current_state = halt_state
          /\ tm'.tape = tm.tape
          /\ tm'.head_position = tm.head_position
          /\ tm'.step_count = tm.step_count
          /\ tm'.error_message =
                 <<"No transition for state '", tm.current_state,
                   "' and symbol '",
                   tape_get(tm.tape, tm.head_position), "'">>
          /\ step(tm').status = "HALT"
          /\ step(tm').tm = tm']_vars

C9_Witness ==
    /\ last.op = "step"
    /\ last.status = "ERROR"
    /\ last.before = "qn1"
    /\ tm.current_state = halt_state
    /\ tm.error_message =
           <<"No transition for state '", "qn1", "' and symbol '", "b", "'">>

\* The machine a fresh TuringMachine() is in after initialize(s).
FreshlyInitialized(s) ==
    [tape |-> [i \in 0..(Len(s) - 1) |-> s[i + 1]],
     head_position |-> 0,
     current_state |-> "q0",
     step_count |-> 0,
     execution_log |-> <<>>,
     original_input |-> s,
     error_message |-> <<>>]

\* The machine and status a sequence of step() calls ends with.
RECURSIVE StepToEnd(_)
StepToEnd(m) ==
    LET r == step(m) IN
    IF r.status = "CONTINUE" THEN StepToEnd(r.tm) ELSE r

\* C10: right after a successful initialize(s), from whatever state, the
\* tape holds exactly s at 0..len(s)-1, the head is at 0, the state is q0,
\* the step count is 0 and the log is empty; and a run that has ended left
\* the machine and status that a fresh machine ends with on the same input.
C10_InitializeResetsEverything ==
    /\ (/\ last.ok
        /\ \/ last.op \in {"initialize", "reset_simulation"}
           \/ last.op = "run" /\ last.status = "NONE")
       => /\ DOMAIN tm.tape = 0..(Len(last.arg) - 1)
          /\ \A i \in 1..Len(last.arg) : tm.tape[i - 1] = last.arg[i]
          /\ tm.head_position = 0
          /\ tm.current_state = "q0"
          /\ tm.step_count = 0
          /\ tm.execution_log = <<>>
    /\ RunReturned =>
          LET fresh == StepToEnd(FreshlyInitialized(last.arg)) IN
          /\ tm = fresh.tm
          /\ last.status = fresh.status

C10_Witness ==
    /\ last.op = "initialize"
    /\ last.ok
    /\ last.before = halt_state
    /\ Len(last.arg) = 3
    /\ tm.current_state = "q0"

\* The step taken is exactly one step() call on the machine tm: a direct
\* call, an iteration of run's loop, or a timer callback.
StepCalled ==
    \/ last'.op \in {"step", "run_step"}
    \/ last'.op = "run" /\ pc = "run"

\* That call applied a transition rule.
RuleApplied ==
    /\ StepCalled
    /\ tm.current_state # halt_state
    /\ last'.status # "ERROR"

\* The rule for the machine's state and the symbol under its head.
RuleAtHead == transitions[tm.current_state][tape_get(tm.tape, tm.head_position)]

\* A successful initialize is part of the step taken.
Reinitialized ==
    /\ last'.ok
    /\ last'.op \in {"initialize", "run", "reset_simulation",
                     "start_simulation"}
    /\ ~StepCalled

\* C11: a step() call that applies a rule increases step_count by exactly
\* 1, any other step() call leaves it as it is, and step_count goes down
\* only when initialize resets it to 0 (start_simulation then steps once).
C11_StepCountByOne ==
    [][/\ RuleApplied => tm'.step_count = tm.step_count + 1
       /\ (StepCalled /\ ~RuleApplied) => tm'.step_count = tm.step_count
       /\ tm'.step_count < tm.step_count =>
              /\ Reinitialized
              /\ tm'.step_count =
                     IF last'.op = "start_simulation" THEN 1 ELSE 0]_vars

C11_Witness ==
    /\ last.op = "step"
    /\ last.status = "HALT"
    /\ last.before = "qy3"
    /\ tm.step_count = 14

\* C12: the machine's state becomes the halt state only from state qy3 or
\* state qn2.
C12_HaltOnlyFromQy3OrQn2 ==
    [][(tm.current_state # halt_state /\ tm'.current_state = halt_state)
       => tm.current_state \in {"qy3", "qn2"}]_vars

\* C13: a rule-applying step() writes the rule's symbol at the pre-step
\* head position, leaves every other cell reading as before, moves the head
\* by -1 / +1 / 0 for L / R / S and sets the state to the rule's new state.
C13_StepFrame ==
    [][RuleApplied =>
         /\ tape_get(tm'.tape, tm.head_position) = RuleAtHead.write
         /\ \A p \in ((DOMAIN tm.tape) \cup (DOMAIN tm'.tape)) :
                p # tm.head_position =>
                    tape_get(tm'.tape, p) = tape_get(tm.tape, p)
         /\ tm'.head_position - tm.head_position =
                CASE RuleAtHead.move = "L" -> -1
                  [] RuleAtHead.move = "R" -> 1
                  [] RuleAtHead.move = "S" -> 0
         /\ tm'.current_state = RuleAtHead.newState]_vars

C13_Witness ==
    /\ last.op = "step"
    /\ last.before = "q3"
    /\ last.status = "CONTINUE"
    /\ tm.current_state = "q5"
    /\ tm.tape[tm.head_position + 1] = blank_symbol
    /\ tm.tape[tm.head_position] \in {"a", "b"}

\* How many times the run so far has started the outer cycle in q0.
CyclesStarted ==
    Cardinality({i \in 1..Len(tm.execution_log) :
                     tm.execution_log[i].state = "q0"})

\* C14: whenever the machine is in q0 on input s, the non-blank cells are
\* exactly s with k symbols removed from each end (k the number of outer
\* cycles started so far), at their original positions; the removed ends
\* matched pairwise; and the head is on the block's leftmost cell (on the
\* blank at position k when the block is empty).
C14_OuterCycleStripsBothEnds ==
    tm.current_state = "q0" =>
        LET s == tm.original_input
            n == Len(s)
            k == CyclesStarted
        IN /\ 2 * k <= n
           /\ tm.head_position = k
           /\ \A p \in (DOMAIN tm.tape) \cup (-1..n) :
                  tape_get(tm.tape, p) =
                      IF k <= p /\ p < n - k THEN s[p + 1] ELSE blank_symbol
           /\ \A i \in 1..k : s[i] = s[n + 1 - i]

C14_Witness ==
    /\ tm.current_state = "q0"
    /\ tm.original_input = <<"a", "b", "b", "a">>
    /\ CyclesStarted = 1
    /\ tm.head_position = 1
    /\ get_tape_content(tm) = <<"b", "b">>

\* The record step() logs for the machine m when it applies a rule.
RecordFor(m) ==
    LET read == tape_get(m.tape, m.head_position)
        rule == transitions[m.current_state][read]
    IN [step |-> m.step_count, state |-> m.current_state,
        position |-> m.head_position, read |-> read,
        write |-> rule.write, move |-> rule.move,
        new_state |-> rule.newState]

\* C15: the log's length always equals step_count, its i-th record (from 0)
\* has step index i, consecutive records chain by state, and each
\* rule-applying step() appends the record of the state, head position and
\* symbol read before the step with the applied rule's write, move and new
\* state; no other step() call changes the log.
C15_LogIsCompleteTrace ==
    [][/\ Len(tm'.execution_log) = tm'.step_count
       /\ \A i \in 1..Len(tm'.execution_log) :
              /\ tm'.execution_log[i].step = i - 1
              /\ i > 1 => tm'.execution_log[i - 1].new_state =
                              tm'.execution_log[i].state
       /\ RuleApplied =>
              tm'.execution_log = Append(tm.execution_log, RecordFor(tm))
       /\ (StepCalled /\ ~RuleApplied) =>
              tm'.execution_log = tm.execution_log
       /\ Reinitialized =>
              tm'.execution_log =
                  IF last'.op = "start_simulation"
                  THEN <<RecordFor(FreshlyInitialized(last'.arg))>>
                  ELSE <<>>]_vars

C15_Witness ==
    /\ last.op = "step"
    /\ last.status = "ERROR"
    /\ Len(tm.execution_log) = 5
    /\ tm.step_count = 5
    /\ tm.execution_log[5].new_state = "qn1"

\* The tape dict with every cell that stores the blank symbol removed.
Compact(tape) ==
    [p \in {q \in DOMAIN tape : tape[q] # blank_symbol} |-> tape[p]]

\* The non-blank symbols read off the tape from its least to its greatest
\* stored position.
AscendingContent(tape) ==
    IF DOMAIN tape = {} THEN <<>>
    ELSE LET lo == CHOOSE k \in DOMAIN tape : \A j \in DOMAIN tape : k <= j
             hi == CHOOSE k \in DOMAIN tape : \A j \in DOMAIN tape : k >= j
             cells == [i \in 1..(hi - lo + 1) |->
                          tape_get(tape, lo + i - 1)]
             NonBlank(c) == c # blank_symbol
         IN SelectSeq(cells, NonBlank)

\* C16: the decoded content is the non-blank symbols in ascending position
\* order, and it and every read are the same for the tape as stored and
\* for the tape with its explicitly stored blanks removed.
C16_BlankCellsAreInvisible ==
    /\ get_tape_content(tm) = AscendingContent(tm.tape)
    /\ get_tape_content([tm EXCEPT !.tape = Compact(tm.tape)]) =
           get_tape_content(tm)
    /\ \A p \in (DOMAIN tm.tape) \cup (-2..(Len(tm.original_input) + 3)) :
           /\ tape_get(Compact(tm.tape), p) = tape_get(tm.tape, p)
           /\ p \notin DOMAIN tm.tape => tape_get(tm.tape, p) = blank_symbol

C16_Witness ==
    /\ -1 \in DOMAIN tm.tape
    /\ tm.tape[-1] = blank_symbol
    /\ 0 \in DOMAIN tm.tape
    /\ tm.tape[0] = "Y"
    /\ get_tape_content(tm) = <<"Y", "E", "S">>

AcceptStates == {"q_yes", "qy1", "qy2", "qy3"}

RejectStates == {"q_no", "qn1", "qn2"}

\* The symbols the log shows as written so far.
WrittenSymbols(log) == {log[i].write : i \in 1..Len(log)}

\* C17: a step() call on a machine in q_yes, qy1, qy2 or qy3 leaves it in
\* one of these states or the halt state, a step() call on a machine in
\* q_no, qn1 or qn2 leaves it in one of those or the halt state, and the
\* log of a run never shows symbols of both tags (Y, E, S and N, O).
C17_VerdictIsCommitted ==
    [][/\ (StepCalled /\ tm.current_state \in AcceptStates) =>
              tm'.current_state \in AcceptStates \cup {halt_state}
       /\ (StepCalled /\ tm.current_state \in RejectStates) =>
              tm'.current_state \in RejectStates \cup {halt_state}
       /\ \/ WrittenSymbols(tm'.execution_log) \cap {"Y", "E", "S"} = {}
          \/ WrittenSymbols(tm'.execution_log) \cap {"N", "O"} = {}]_vars

C17_Witness ==
    /\ last.op = "step"
    /\ last.before = "q_no"
    /\ tm.current_state = "qn1"
    /\ Len(tm.original_input) = 4

\* C18: on an input of length n the head stays within -1 .. n+2 and every
\* cell at a negative position holds the blank symbol.
C18_HeadAndTapeBounds ==
    /\ tm.head_position >= -1
    /\ tm.head_position <= Len(tm.original_input) + 2
    /\ \A p \in DOMAIN tm.tape : p < 0 => tm.tape[p] = blank_symbol

C18_Witness ==
    /\ tm.head_position = 0
    /\ tm.current_state = "qy1"
    /\ Len(tm.original_input) = 1
    /\ -1 \in DOMAIN tm.tape

\* (n*n + 3*n)/2 + 5
StepBound(n) == ((n * n + 3 * n) \div 2) + 5

\* C19: on an input of length n step_count never exceeds
\* (n*n + 3*n)/2 + 5, and a palindrome halts with exactly that count.
C19_QuadraticStepBound ==
    LET n == Len(tm.original_input) IN
    /\ tm.step_count <= StepBound(n)
    /\ (tm.current_state = halt_state /\ IsPalindrome(tm.original_input))
           => tm.step_count = StepBound(n)

C19_Witness ==
    /\ tm.current_state = halt_state
    /\ tm.original_input = <<"a", "b", "b", "a">>
    /\ tm.step_count = 19

\* C20: at most one run_step callback is pending, it is the one held in
\* simulation_id and it is pending only while Run is disabled; a Reset
\* leaves none pending; and a callback steps the machine only while Run is
\* disabled, that is, not after a Reset until Run is pressed again.
C20_SingleSimulationChain ==
    [][/\ Cardinality(gui'.timers) <= 1
       /\ gui'.timers \subseteq {gui'.simulation_id}
       /\ gui'.timers # {} => gui'.run_button = "disabled"
       /\ last'.op = "reset_simulation" => gui'.timers = {}
       /\ (mode = "gui" /\ tm'.step_count > tm.step_count) =>
              \/ last'.op = "start_simulation"
              \/ last'.op = "run_step" /\ gui.run_button = "disabled"]_vars

C20_Witness ==
    /\ last.op = "reset_simulation"
    /\ last.before \in {"q1", "q2", "q5"}
    /\ gui.timers = {}
    /\ gui.run_button = "normal"
    /\ tm.step_count = 0

\* C21: right after a Reset the machine is in q0 with step count 0, as the
\* status labels that Reset sets say, whatever the entry holds and whatever
\* the machine did before.
C21_ResetLeavesMachineAtStart ==
    last.op = "reset_simulation" =>
        /\ gui.status_label = "q0"
        /\ gui.step_label = 0
        /\ tm.current_state = gui.status_label
        /\ tm.step_count = gui.step_label

====
